---------------------------- MODULE Spec2Model ----------------------------
(***************************************************************************)
(* A model of pyxavi.dictionary.Dictionary: a tree of dicts, lists and     *)
(* scalars addressed by separator-delimited string paths.                  *)
(*                                                                         *)
(* Python values are tagged records.  A Python str is the sequence of its  *)
(* characters, so that find / split / join / isdecimal / int are computed  *)
(* on characters as the code computes them.  A dict is the sequence of its *)
(* (key, value) entries in insertion order.  A call that raises hands back *)
(* the name of the exception in the field exc.                             *)
(***************************************************************************)
EXTENDS Integers, Sequences, FiniteSets, TLC

VARIABLES
    content,      \* the root of the tree of the instance called last
    op,           \* the method called last ("new" after construction)
    param_name,   \* its param_name argument (a str, or None)
    value,        \* its value / default_value argument
    exc,          \* "none", or the exception the call raised
    ret,          \* what the call returned (None when it raised)
    pre,          \* _content as it was when the call started
    calls,        \* number of calls made
    heap,         \* the dict objects that instances hold, by identity
    _content,     \* for each instance, the identity of the object it holds
    self          \* the instance the last call was made on

vars == <<content, op, param_name, value, exc, ret, pre, calls,
          heap, _content, self>>

----------------------------------------------------------------------------
(* Python values *)

PyNone == [t |-> "None"]

PyStr(s) == [t |-> "str", v |-> s]

PyInt(n) == [t |-> "int", v |-> n]

PyBool(b) == [t |-> "bool", v |-> b]

PyDict(entries) == [t |-> "dict", e |-> entries]

PyList(elements) == [t |-> "list", e |-> elements]

Entry(key, val) == [k |-> key, v |-> val]

\* key in d, for a dict d
HasKey(d, key) == \E i \in 1..Len(d.e) : d.e[i].k = key

\* d[key], for a dict d that has the key
Lookup(d, key) == d.e[CHOOSE i \in 1..Len(d.e) : d.e[i].k = key].v

\* d.setdefault(key, val) in place of d[key] = val: a key that is there keeps
\* its value
DictSetDefault(d, key, val) ==
    IF HasKey(d, key) THEN d ELSE PyDict(Append(d.e, Entry(key, val)))

\* d[key] = val: overwrite in place, or insert at the end
DictSet(d, key, val) ==
    IF HasKey(d, key)
    THEN PyDict([i \in 1..Len(d.e) |->
                    IF d.e[i].k = key THEN Entry(key, val) ELSE d.e[i]])
    ELSE PyDict(Append(d.e, Entry(key, val)))

\* s with the element at position i (1-based) removed
RemoveAt(s, i) == SubSeq(s, 1, i - 1) \o SubSeq(s, i + 1, Len(s))

\* d[key] = None in place of del d[key]: the key stays, with the marker
DictDelMarks(d, key) ==
    PyDict([i \in 1..Len(d.e) |->
               IF d.e[i].k = key THEN Entry(key, PyNone) ELSE d.e[i]])

\* del d[key], for a dict d that has the key
DictDel(d, key) == PyDict(RemoveAt(d.e, CHOOSE i \in 1..Len(d.e) : d.e[i].k = key))

\* l[index] raises IndexError (index may be negative, counting from the end)
_is_out_of_range(index, list_to_check) ==
    ~ (-Len(list_to_check.e) <= index /\ index < Len(list_to_check.e))

\* the 1-based position that the in-range Python index addresses
Pos(index, l) == IF index < 0 THEN Len(l.e) + index + 1 ELSE index + 1

\* l[index], for an index in range
ListGet(l, index) == l.e[Pos(index, l)]

\* l[index] = val, for an index in range
ListSet(l, index, val) == PyList([l.e EXCEPT ![Pos(index, l)] = val])

\* l[index] = None in place of del l[index]: the position stays, with the
\* marker
ListDelMarks(l, index) == PyList([l.e EXCEPT ![Pos(index, l)] = PyNone])

\* del l[index], for an index in range
ListDel(l, index) == PyList(RemoveAt(l.e, Pos(index, l)))

----------------------------------------------------------------------------
(* Python str operations, on sequences of characters *)

PATH_SEPARATOR_CHAR == "."

Digits == <<"0", "1", "2", "3", "4", "5", "6", "7", "8", "9">>

IsDigit(c) == \E i \in 1..Len(Digits) : Digits[i] = c

DigitValue(c) == (CHOOSE i \in 1..Len(Digits) : Digits[i] = c) - 1

\* s.find(separator): 0-based position of the first separator, -1 if none
find(s) ==
    IF \E i \in 1..Len(s) : s[i] = PATH_SEPARATOR_CHAR
    THEN (CHOOSE i \in 1..Len(s) :
             /\ s[i] = PATH_SEPARATOR_CHAR
             /\ \A j \in 1..(i - 1) : s[j] # PATH_SEPARATOR_CHAR) - 1
    ELSE -1

\* s.split(separator)
RECURSIVE split(_)
split(s) ==
    LET i == find(s)
    IN  IF i = -1 THEN <<s>>
        ELSE <<SubSeq(s, 1, i)>> \o split(SubSeq(s, i + 2, Len(s)))

\* separator.join(pieces)
RECURSIVE join(_)
join(pieces) ==
    IF pieces = <<>> THEN <<>>
    ELSE IF Len(pieces) = 1 THEN pieces[1]
    ELSE pieces[1] \o <<PATH_SEPARATOR_CHAR>> \o join(Tail(pieces))

\* s.isdecimal(): non-empty and all digits
isdecimal(s) == s # <<>> /\ \A i \in 1..Len(s) : IsDigit(s[i])

\* the value of a non-empty string of digits
RECURSIVE DecimalValue(_)
DecimalValue(s) ==
    IF s = <<>> THEN 0
    ELSE 10 * DecimalValue(SubSeq(s, 1, Len(s) - 1)) + DigitValue(s[Len(s)])

\* int(s), for a string that _is_int accepts
int(s) ==
    IF s[1] = "-" THEN - DecimalValue(Tail(s))
    ELSE IF s[1] = "+" THEN DecimalValue(Tail(s))
    ELSE DecimalValue(s)

\* _is_int(element) raises IndexError: element[0] of the empty string
IsIntRaises(element) == element = <<>>

\* _is_int(element), for a non-empty element
_is_int(element) ==
    IF element[1] \in {"-", "+"} THEN isdecimal(Tail(element))
    ELSE isdecimal(element)

\* needle in hay, for two strs: needle occurs in hay as a substring
StrContains(hay, needle) ==
    \E i \in 0..(Len(hay) - Len(needle)) :
        SubSeq(hay, i + 1, i + Len(needle)) = needle

----------------------------------------------------------------------------
(* Outcomes of a call *)

Returned(r) == [exc |-> "none", ret |-> r]

Raised(e) == [exc |-> e, ret |-> PyNone]

----------------------------------------------------------------------------
(* Dictionary.get *)

\* item in local_content, for a str item, raises TypeError
\* (the argument of `in` is an int, a bool or None: not iterable)
InRaises(local_content) == local_content.t \in {"int", "bool", "None"}

\* item in local_content, for a str item: a key of a dict, an element of a
\* list, a substring of a str
In(item, local_content) ==
    CASE local_content.t = "dict" -> HasKey(local_content, item)
      [] local_content.t = "list" ->
            \E i \in 1..Len(local_content.e) : local_content.e[i] = PyStr(item)
      [] local_content.t = "str" -> StrContains(local_content.v, item)
      [] OTHER -> FALSE

\* the loop of get over the pieces of the path that are left
RECURSIVE GetWalk(_, _, _)
GetWalk(local_content, items, default_value) ==
    IF items = <<>> THEN Returned(local_content)
    ELSE LET item == Head(items)
         IN  IF IsIntRaises(item) THEN Raised("IndexError")
             ELSE IF _is_int(item)
             THEN IF local_content.t = "list" /\ int(item) < Len(local_content.e)
                  THEN IF _is_out_of_range(int(item), local_content)
                       THEN Raised("IndexError")
                       ELSE IF ListGet(local_content, int(item)) # PyNone
                       THEN GetWalk(ListGet(local_content, int(item)),
                                    Tail(items), default_value)
                       ELSE Returned(default_value)
                  ELSE Returned(default_value)
             ELSE IF InRaises(local_content) THEN Raised("TypeError")
             ELSE IF In(item, local_content)
             THEN IF local_content.t # "dict"
                  THEN Raised("TypeError")   \* a list or a str indexed by a str
                  ELSE IF Lookup(local_content, item) # PyNone
                  THEN GetWalk(Lookup(local_content, item),
                               Tail(items), default_value)
                  ELSE Returned(default_value)
             ELSE Returned(default_value)

\* a dict is true when it is not empty
Truthy(d) == d.e # <<>>

get(root, name, default_value) ==
    IF find(name) > 0
    THEN GetWalk(root, split(name), default_value)
    ELSE IF Truthy(root) /\ HasKey(root, name)
         THEN Returned(Lookup(root, name))
         ELSE Returned(default_value)

get_all(root) == Returned(root)

----------------------------------------------------------------------------
(* Dictionary._get_focused_key, get_parent, key_exists, get_keys_in *)

_get_focused_key(name) ==
    IF find(name) > 0 THEN split(name)[Len(split(name))] ELSE name

get_parent(root, name) ==
    IF find(name) > 0
    THEN LET pieces == split(name)
         IN  get(root, join(SubSeq(pieces, 1, Len(pieces) - 1)), PyNone)
    ELSE Returned(root)

key_exists(root, name) ==
    LET key_to_search == _get_focused_key(name)
        parent == get_parent(root, name)
        parent_object == parent.ret
    IN  IF parent.exc # "none" THEN parent
        ELSE IF parent_object = PyNone THEN Returned(PyBool(FALSE))
        ELSE IF parent_object.t = "list"
        THEN IF IsIntRaises(key_to_search) THEN Raised("IndexError")
             ELSE IF _is_int(key_to_search)
             THEN Returned(PyBool(~ _is_out_of_range(int(key_to_search),
                                                     parent_object)))
             ELSE Returned(PyBool(FALSE))
        ELSE IF parent_object.t = "dict"
        THEN Returned(PyBool(HasKey(parent_object, key_to_search)))
        ELSE Returned(PyBool(FALSE))

\* [key for key in obj.keys()]
DictKeys(obj) == PyList([i \in 1..Len(obj.e) |-> PyStr(obj.e[i].k)])

\* [key for key in range(len(obj))]
ListKeys(obj) == PyList([i \in 1..Len(obj.e) |-> PyInt(i - 1)])

\* name is a str, or None for the root
get_keys_in(root, name) ==
    LET got == IF name # PyNone THEN get(root, name.v, PyNone)
               ELSE Returned(root)
        obj == got.ret
    IN  IF got.exc # "none" THEN got
        ELSE IF obj.t = "dict" THEN Returned(DictKeys(obj))
        ELSE IF obj.t = "list" THEN Returned(ListKeys(obj))
        ELSE Returned(PyNone)

----------------------------------------------------------------------------
(* Dictionary.__recursive_set and set.  The code writes into the object it   *)
(* was handed; here each level hands back the object as the call left it,    *)
(* and its caller puts it back in place.                                     *)

\* the outcome of a mutating call: the exception, the value returned, and
\* the object (the tree, or a node of it) as the call left it
Done(r, node) == [exc |-> "none", ret |-> r, node |-> node]

Failed(e, node) == [exc |-> e, ret |-> PyNone, node |-> node]

\* list_to_check.append(value) alone, without the loop that fills the gap
ExtendAppend(l, idx, index, val) == PyList(Append(l.e, val))

\* the loop of lines 155-159 from idx on: append where idx is out of range,
\* None before the index and the value at it
RECURSIVE Extend(_, _, _, _)
Extend(l, idx, index, val) ==
    IF idx > index THEN l
    ELSE IF ~ _is_out_of_range(idx, l) THEN Extend(l, idx + 1, index, val)
    ELSE Extend(PyList(Append(l.e, IF idx = index THEN val ELSE PyNone)),
                idx + 1, index, val)

\* the last piece without the isinstance check of line 143: an index piece is
\* written into whatever the parent is
SetLastUnchecked(name, val, dictionary) ==
    IF IsIntRaises(name) THEN Failed("IndexError", dictionary)
    ELSE IF dictionary = PyNone THEN Done(PyNone, dictionary)
    ELSE IF dictionary.t = "dict"
    THEN Done(PyNone, DictSet(dictionary, name, val))
    ELSE IF dictionary.t # "list" \/ ~ _is_int(name)
    THEN Failed("TypeError", dictionary)
    ELSE IF int(name) < Len(dictionary.e)
    THEN IF _is_out_of_range(int(name), dictionary)
         THEN Failed("IndexError", dictionary)
         ELSE Done(PyNone, ListSet(dictionary, int(name), val))
    ELSE Done(PyNone, Extend(dictionary, 0, int(name), val))

\* the last piece of the path: lines 138-164
SetLast(name, val, dictionary) ==
    IF IsIntRaises(name) THEN Failed("IndexError", dictionary)
    ELSE IF _is_int(name)
    THEN IF dictionary.t # "list" THEN Failed("ValueError", dictionary)
         ELSE IF int(name) < Len(dictionary.e)
         THEN IF _is_out_of_range(int(name), dictionary)
              THEN Failed("IndexError", dictionary)
              ELSE Done(PyNone, ListSet(dictionary, int(name), val))
         ELSE Done(PyNone, Extend(dictionary, 0, int(name), val))
    ELSE IF dictionary # PyNone
    THEN IF dictionary.t = "dict"
         THEN Done(PyNone, DictSet(dictionary, name, val))
         ELSE Failed("TypeError", dictionary)  \* item assignment on list/str/int
    ELSE Done(PyNone, dictionary)   \* line 164 rebinds the local name only

\* __recursive_set that creates a missing intermediate key as an empty dict
\* and goes on, in place of raising at line 125
RECURSIVE RecursiveSetCreating(_, _, _)
RecursiveSetCreating(name, val, dictionary) ==
    IF find(name) > 0
    THEN LET pieces == split(name)
             rest == join(Tail(pieces))
         IN  IF _is_int(pieces[1])
             THEN LET item == int(pieces[1])
                  IN  IF dictionary.t # "list"
                      THEN Failed("ValueError", dictionary)
                      ELSE IF item < Len(dictionary.e)
                      THEN IF _is_out_of_range(item, dictionary)
                           THEN Failed("IndexError", dictionary)
                           ELSE IF ListGet(dictionary, item) # PyNone
                           THEN LET r == RecursiveSetCreating(
                                            rest, val, ListGet(dictionary, item))
                                IN  [r EXCEPT !.node =
                                        ListSet(dictionary, item, r.node)]
                           ELSE Failed("RuntimeError", dictionary)
                      ELSE Failed("RuntimeError", dictionary)
             ELSE IF dictionary.t = "dict"
             THEN LET child == IF HasKey(dictionary, pieces[1])
                               THEN Lookup(dictionary, pieces[1])
                               ELSE PyDict(<<>>)
                      r == RecursiveSetCreating(rest, val, child)
                  IN  [r EXCEPT !.node = DictSet(dictionary, pieces[1], r.node)]
             ELSE Failed("RuntimeError", dictionary)
    ELSE SetLast(name, val, dictionary)

RECURSIVE __recursive_set(_, _, _)
__recursive_set(name, val, dictionary) ==
    IF find(name) > 0
    THEN LET pieces == split(name)
             rest == join(Tail(pieces))
         IN  IF _is_int(pieces[1])
             THEN LET item == int(pieces[1])
                  IN  IF dictionary.t # "list"
                      THEN Failed("ValueError", dictionary)
                      ELSE IF item < Len(dictionary.e)
                      THEN IF _is_out_of_range(item, dictionary)
                           THEN Failed("IndexError", dictionary)
                           ELSE IF ListGet(dictionary, item) # PyNone
                           THEN LET r == __recursive_set(
                                            rest, val, ListGet(dictionary, item))
                                IN  [r EXCEPT !.node =
                                        ListSet(dictionary, item, r.node)]
                           ELSE Failed("RuntimeError", dictionary)
                      ELSE Failed("RuntimeError", dictionary)
             ELSE IF dictionary.t = "dict"
             THEN IF ~ HasKey(dictionary, pieces[1])
                  THEN Failed("RuntimeError", dictionary)
                  ELSE LET r == __recursive_set(
                                   rest, val, Lookup(dictionary, pieces[1]))
                       IN  [r EXCEPT !.node =
                               DictSet(dictionary, pieces[1], r.node)]
             ELSE Failed("RuntimeError", dictionary)
    ELSE SetLast(name, val, dictionary)

\* name is a str, or None
set(root, name, val) ==
    IF name = PyNone THEN Failed("RuntimeError", root)
    ELSE __recursive_set(name.v, val, root)

----------------------------------------------------------------------------
(* Dictionary.delete *)

\* del parent[key_to_delete] at the place in the tree that get_parent(name)
\* handed out: the walk of get over the parent path, rebuilt on the way back
RECURSIVE DelAt(_, _, _)
DelAt(node, items, key_to_delete) ==
    IF items = <<>>
    THEN IF node.t = "list" /\ _is_int(key_to_delete)
         THEN ListDel(node, int(key_to_delete))
         ELSE DictDel(node, key_to_delete)
    ELSE LET item == Head(items)
         IN  IF node.t = "list"
             THEN ListSet(node, int(item),
                          DelAt(ListGet(node, int(item)), Tail(items),
                                key_to_delete))
             ELSE DictSet(node, item,
                          DelAt(Lookup(node, item), Tail(items), key_to_delete))

\* the pieces that lead from the root to get_parent(name)
ParentPieces(name) ==
    IF find(name) > 0
    THEN LET pieces == split(name)
             parent_key == join(SubSeq(pieces, 1, Len(pieces) - 1))
         IN  IF find(parent_key) > 0 THEN split(parent_key) ELSE <<parent_key>>
    ELSE <<>>

\* delete without the test of line 219: del of an entry that is not there
\* raises
DeleteUnchecked(root, name) ==
    LET exists == key_exists(root, name)
    IN  IF exists.exc # "none" THEN Failed(exists.exc, root)
        ELSE IF exists.ret = PyBool(TRUE)
        THEN Done(PyBool(TRUE),
                  DelAt(root, ParentPieces(name), _get_focused_key(name)))
        ELSE Failed("KeyError", root)

delete(root, name) ==
    LET exists == key_exists(root, name)
    IN  IF exists.exc # "none" THEN Failed(exists.exc, root)
        ELSE IF exists.ret = PyBool(TRUE)
        THEN Done(PyBool(TRUE),
                  DelAt(root, ParentPieces(name), _get_focused_key(name)))
        ELSE Done(PyBool(FALSE), root)

----------------------------------------------------------------------------
(* Dictionary.initialise_recursive *)

\* the test of lines 245-246 raises IndexError: _is_int of an empty piece
CompatibleRaises(parent, piece) ==
    parent.t \in {"dict", "list"} /\ IsIntRaises(piece)

\* the test of lines 245-246 left out: whatever the parent, the piece is created
CompatibleAny(parent, piece) == TRUE

\* lines 245-246: a dict parent with a key piece, a list parent with an index
Compatible(parent, piece) ==
    \/ parent.t = "dict" /\ ~ _is_int(piece)
    \/ parent.t = "list" /\ _is_int(piece)

\* the loop without the test of line 243: every piece is set to an empty dict,
\* whether its path exists or not
RECURSIVE InitialiseLoopOverwriting(_, _, _)
InitialiseLoopOverwriting(root, pieces, parent_path) ==
    IF pieces = <<>> THEN Done(PyNone, root)
    ELSE LET piece == Head(pieces)
             path == parent_path \o piece
             parent == get_parent(root, path)
             created == set(root, PyStr(path), PyDict(<<>>))
             next_path == path \o <<PATH_SEPARATOR_CHAR>>
         IN  IF parent.exc # "none" THEN Failed(parent.exc, root)
             ELSE IF CompatibleRaises(parent.ret, piece)
             THEN Failed("IndexError", root)
             ELSE IF Compatible(parent.ret, piece)
             THEN IF created.exc # "none" THEN Failed(created.exc, created.node)
                  ELSE InitialiseLoopOverwriting(created.node, Tail(pieces),
                                                 next_path)
             ELSE Failed("RuntimeError", root)

\* the loop of lines 241-258 over the pieces that are left
RECURSIVE InitialiseLoop(_, _, _)
InitialiseLoop(root, pieces, parent_path) ==
    IF pieces = <<>> THEN Done(PyNone, root)
    ELSE LET piece == Head(pieces)
             path == parent_path \o piece
             exists == key_exists(root, path)
             parent == get_parent(root, path)
             created == set(root, PyStr(path), PyDict(<<>>))
             next_path == path \o <<PATH_SEPARATOR_CHAR>>
         IN  IF exists.exc # "none" THEN Failed(exists.exc, root)
             ELSE IF exists.ret = PyBool(TRUE)
             THEN InitialiseLoop(root, Tail(pieces), next_path)
             ELSE IF parent.exc # "none" THEN Failed(parent.exc, root)
             ELSE IF CompatibleRaises(parent.ret, piece)
             THEN Failed("IndexError", root)
             ELSE IF Compatible(parent.ret, piece)
             THEN IF created.exc # "none" THEN Failed(created.exc, created.node)
                  ELSE InitialiseLoop(created.node, Tail(pieces), next_path)
             ELSE Failed("RuntimeError", root)

initialise_recursive(root, name) == InitialiseLoop(root, split(name), <<>>)

----------------------------------------------------------------------------
(* The instances and the calls explored *)

\* calls made on one instance
MaxCalls == 2

\* pieces in a path
MaxPieces == 3

Pieces == {<<"a">>, <<"b">>, <<"0">>, <<"3">>, <<"-", "1">>, <<>>}

PieceSeqs == UNION {[1..n -> Pieces] : n \in 1..MaxPieces}

service == <<"s", "e", "r", "v", "i", "c", "e">>

endpoints == <<"e", "n", "d", "p", "o", "i", "n", "t", "s">>

\* the paths of the configuration of a service with its list of endpoints
service_endpoints == join(<<service, endpoints>>)

service_endpoints_0 == join(<<service, endpoints, <<"0">> >>)

service_endpoints_1 == join(<<service, endpoints, <<"1">> >>)

service_name == join(<<service, <<"n", "a", "m", "e">> >>)

ServicePaths ==
    {service_endpoints, service_endpoints_0, service_endpoints_1, service_name}

http_x == PyStr(<<"h", "t", "t", "p", ":", "/", "/", "x">>)

http_y == PyStr(<<"h", "t", "t", "p", ":", "/", "/", "y">>)

default == PyStr(<<"d", "e", "f", "a", "u", "l", "t">>)

Paths == {join(ps) : ps \in PieceSeqs} \cup ServicePaths

Scalars == {PyStr(<<"x">>), PyStr(<<"a">>), PyInt(7)}

Values == {PyNone, http_x, PyDict(<<>>), PyList(<<>>)}

Defaults == {PyNone, default}

\* what the key "a" of the root holds when the instance is constructed
Children ==
    {PyNone, PyDict(<<>>), PyList(<<>>)} \cup Scalars
    \cup {PyDict(<<Entry(<<"a">>, x)>>) : x \in {PyNone, PyStr(<<"x">>)}}
    \cup {PyDict(<<Entry(<<"a">>, PyStr(<<"x">>)), Entry(<<"b">>, x)>>) :
            x \in {PyInt(7), PyList(<<PyStr(<<"x">>)>>)}}
    \cup {PyList(<<x>>) : x \in {PyNone, PyStr(<<"a">>)}}
    \cup {PyList(<<PyStr(<<"x">>), x>>) :
            x \in {PyStr(<<"y">>), PyDict(<<Entry(<<"b">>, PyNone)>>)}}

\* Dictionary(content): the dicts a loader hands to the constructor
Contents ==
    {PyDict(<<>>)} \cup {PyDict(<<Entry(<<"a">>, c)>>) : c \in Children}
    \cup {PyDict(<<Entry(<<"a">>, PyList(<<>>)), Entry(<<"0">>, PyStr(<<"x">>))>>)}

\* self._content = content: the instance holds the object it was handed, not
\* a copy of it
__init__(instances, object) == [i \in instances |-> object]

\* the root of the tree of the instance
Root(i) == heap[_content[i]]

\* one instance, constructed with a content of its own
Init ==
    /\ content \in Contents
    /\ heap = [o \in {"content"} |-> content]
    /\ _content = __init__({"d"}, "content")
    /\ self = "d"
    /\ op = "new"
    /\ param_name = PyNone
    /\ value = PyNone
    /\ exc = "none"
    /\ ret = PyNone
    /\ pre = content
    /\ calls = 0

\* two instances, each constructed without a content: each is handed the
\* default of the parameter, the one dict made when __init__ was defined
InitDefault ==
    /\ heap = [o \in {"__defaults__"} |-> PyDict(<<>>)]
    /\ _content = __init__({"one", "other"}, "__defaults__")
    /\ self = "other"
    /\ content = PyDict(<<>>)
    /\ op = "new"
    /\ param_name = PyNone
    /\ value = PyNone
    /\ exc = "none"
    /\ ret = PyNone
    /\ pre = content
    /\ calls = 0

\* s is a prefix of t
IsPrefix(s, t) == Len(s) <= Len(t) /\ SubSeq(t, 1, Len(s)) = s

Names == {PyStr(p) : p \in Paths}

\* The caller works on one branch of the tree: a call addresses the path of
\* the call before it, a path above it or a path below it (any path after a
\* call without one).
Related(last, name) ==
    IF last = PyNone \/ name = PyNone THEN TRUE
    ELSE \/ IsPrefix(split(last.v), split(name.v))
         \/ IsPrefix(split(name.v), split(last.v))

\* the names a call may address after a call that addressed last
RelatedNames[last \in Names \cup {PyNone}] ==
    {n \in Names : Related(last, n)}

\* a call that reads: _content stays, the outcome is recorded
Read(i, method, name, arg, r) ==
    /\ heap' = heap
    /\ _content' = _content
    /\ self' = i
    /\ content' = Root(i)
    /\ op' = method
    /\ param_name' = name
    /\ value' = arg
    /\ exc' = r.exc
    /\ ret' = r.ret
    /\ pre' = Root(i)
    /\ calls' = calls + 1

\* a call that may write: _content is what the call left
Write(i, method, name, arg, r) ==
    /\ heap' = [heap EXCEPT ![_content[i]] = r.node]
    /\ _content' = _content
    /\ self' = i
    /\ content' = r.node
    /\ op' = method
    /\ param_name' = name
    /\ value' = arg
    /\ exc' = r.exc
    /\ ret' = r.ret
    /\ pre' = Root(i)
    /\ calls' = calls + 1

Get ==
    \E i \in DOMAIN _content, n \in RelatedNames[param_name], d \in Defaults :
        /\ calls < MaxCalls
        /\ Read(i, "get", n, d, get(Root(i), n.v, d))

GetAll ==
    \E i \in DOMAIN _content :
        /\ calls < MaxCalls
        /\ Read(i, "get_all", PyNone, PyNone, get_all(Root(i)))

KeyExists ==
    \E i \in DOMAIN _content, n \in RelatedNames[param_name] :
        /\ calls < MaxCalls
        /\ Read(i, "key_exists", n, PyNone, key_exists(Root(i), n.v))

GetParent ==
    \E i \in DOMAIN _content, n \in RelatedNames[param_name] :
        /\ calls < MaxCalls
        /\ Read(i, "get_parent", n, PyNone, get_parent(Root(i), n.v))

GetKeysIn ==
    \E i \in DOMAIN _content, n \in RelatedNames[param_name] \cup {PyNone} :
        /\ calls < MaxCalls
        /\ Read(i, "get_keys_in", n, PyNone, get_keys_in(Root(i), n))

Set ==
    \E i \in DOMAIN _content, n \in RelatedNames[param_name] \cup {PyNone},
       v \in Values :
        /\ calls < MaxCalls
        /\ Write(i, "set", n, v, set(Root(i), n, v))

Delete ==
    \E i \in DOMAIN _content, n \in RelatedNames[param_name] :
        /\ calls < MaxCalls
        /\ Write(i, "delete", n, PyNone, delete(Root(i), n.v))

InitialiseRecursive ==
    \E i \in DOMAIN _content, n \in RelatedNames[param_name] :
        /\ calls < MaxCalls
        /\ Write(i, "initialise_recursive", n, PyNone,
                 initialise_recursive(Root(i), n.v))

Next ==
    \/ Get
    \/ GetAll
    \/ KeyExists
    \/ GetParent
    \/ GetKeysIn
    \/ Set
    \/ Delete
    \/ InitialiseRecursive

Spec == Init /\ [][Next]_vars

SpecDefault == InitDefault /\ [][Next]_vars

----------------------------------------------------------------------------
(* What the claims speak of *)

Reads == {"get", "key_exists", "get_parent", "get_keys_in"}

Called(method) == op = method /\ param_name # PyNone

EmptyRoot == PyDict(<<>>)

IsIndexSegment(piece) == piece # <<>> /\ _is_int(piece)

IsKeySegment(piece) == piece # <<>> /\ ~ _is_int(piece)

LastPiece(name) == split(name)[Len(split(name))]

PathOfParent(name) == SubSeq(split(name), 1, Len(split(name)) - 1)

\* The node a path addresses, by the data model: an index segment addresses
\* a position of a Sequence (counted from the end when negative), a key
\* segment a key of a Map.  [found |-> FALSE] when a piece addresses nothing.
RECURSIVE NodeAt(_, _)
NodeAt(node, pieces) ==
    IF pieces = <<>> THEN [found |-> TRUE, node |-> node]
    ELSE LET piece == Head(pieces)
         IN  IF IsIndexSegment(piece)
             THEN IF node.t = "list" /\ ~ _is_out_of_range(int(piece), node)
                  THEN NodeAt(ListGet(node, int(piece)), Tail(pieces))
                  ELSE [found |-> FALSE]
             ELSE IF node.t = "dict" /\ HasKey(node, piece)
                  THEN NodeAt(Lookup(node, piece), Tail(pieces))
                  ELSE [found |-> FALSE]

Resolves(root, name) == NodeAt(root, split(name)).found

\* a Sequence is what the parent path of name addresses
SequenceAt(root, name) ==
    /\ NodeAt(root, PathOfParent(name)).found
    /\ NodeAt(root, PathOfParent(name)).node.t = "list"

\* the elements of that Sequence
ElementsAt(root, name) == NodeAt(root, PathOfParent(name)).node.e

\* The walk of set over the pieces reaches an index segment while the node it
\* stands on is not a Sequence.  The walk goes on through a key that the Map
\* has and through an index that the Sequence has with a value at it.
RECURSIVE IndexMeetsNonSequence(_, _)
IndexMeetsNonSequence(node, pieces) ==
    IF pieces = <<>> THEN FALSE
    ELSE LET piece == Head(pieces)
         IN  IF IsIndexSegment(piece)
             THEN IF node.t # "list" THEN TRUE
                  ELSE /\ Tail(pieces) # <<>>
                       /\ ~ _is_out_of_range(int(piece), node)
                       /\ ListGet(node, int(piece)) # PyNone
                       /\ IndexMeetsNonSequence(ListGet(node, int(piece)),
                                                Tail(pieces))
             ELSE /\ IsKeySegment(piece)
                  /\ Tail(pieces) # <<>>
                  /\ node.t = "dict"
                  /\ HasKey(node, piece)
                  /\ IndexMeetsNonSequence(Lookup(node, piece), Tail(pieces))

----------------------------------------------------------------------------
(* C1: round trip.  After a set(p, v) with a non-empty p that returned, get(p) *)
(* returns v.                                                                *)

C1_RoundTrip ==
    (Called("set") /\ exc = "none" /\ param_name.v # <<>>)
        => get(content, param_name.v, PyNone) = Returned(value)

----------------------------------------------------------------------------
(* C2: from an empty root, initialise_recursive("service.endpoints"), then   *)
(* set("service.endpoints.0", "http://x"), then set("service.endpoints.1",   *)
(* "http://y") all return, and then get_keys_in("service.endpoints") is      *)
(* [0, 1] and get("service.name", "default") is "default".                   *)

ServiceInitialised ==
    /\ op = "initialise_recursive"
    /\ param_name = PyStr(service_endpoints)
    /\ pre = EmptyRoot

\* the third call of the scenario and the reads after it, on the tree as the
\* second call left it
ServiceEnd(root) ==
    LET third == set(root, PyStr(service_endpoints_1), http_y)
    IN  /\ third.exc = "none"
        /\ get_keys_in(third.node, PyStr(service_endpoints))
               = Returned(PyList(<<PyInt(0), PyInt(1)>>))
        /\ get(third.node, service_name, default) = Returned(default)

C2_Scenario ==
    /\ [](ServiceInitialised => exc = "none")
    /\ [][(/\ ServiceInitialised
           /\ op' = "set"
           /\ param_name' = PyStr(service_endpoints_0)
           /\ value' = http_x)
             => (exc' = "none" /\ ServiceEnd(content'))]_vars

(* C2 as the code has it: initialise_recursive("service.endpoints") returns  *)
(* and leaves an empty Map at service.endpoints; set of service.endpoints.0  *)
(* and of service.endpoints.1 then each raise ValueError (an index segment   *)
(* against a Map) and leave the tree as it was, so get_keys_in of            *)
(* "service.endpoints" is [] and get("service.name", "default") "default".   *)

ServiceAsBuilt(root) ==
    /\ get(root, service_endpoints, PyNone) = Returned(PyDict(<<>>))
    /\ get_keys_in(root, PyStr(service_endpoints)) = Returned(PyList(<<>>))
    /\ get(root, service_name, default) = Returned(default)

C2_ScenarioAsBuilt ==
    /\ [](ServiceInitialised => (exc = "none" /\ ServiceAsBuilt(content)))
    /\ [][(/\ ServiceInitialised
           /\ op' = "set"
           /\ param_name' \in {PyStr(service_endpoints_0),
                               PyStr(service_endpoints_1)})
             => (/\ exc' = "ValueError"
                 /\ content' = content
                 /\ ServiceAsBuilt(content'))]_vars

C2_Witness ==
    /\ op = "set"
    /\ param_name = PyStr(service_endpoints_0)
    /\ value = http_x
    /\ pre = initialise_recursive(EmptyRoot, service_endpoints).node
    /\ pre # EmptyRoot
    /\ exc = "ValueError"

----------------------------------------------------------------------------
(* C3: over an empty root, for every path p and every value v,               *)
(* initialise_recursive(p) returns, the set(p, v) after it returns, and      *)
(* get(p) then returns v.                                                    *)

Initialised == Called("initialise_recursive") /\ pre = EmptyRoot

KeyPath(name) == \A i \in 1..Len(split(name)) : IsKeySegment(split(name)[i])

C3_InitialiseThenSet ==
    /\ [](Initialised => exc = "none")
    /\ [][(Initialised /\ op' = "set" /\ param_name' = param_name)
             => (/\ exc' = "none"
                 /\ get(content', param_name'.v, PyNone) = Returned(value'))]_vars

(* C3 as the code has it: the same, for every path p all of whose segments   *)
(* are non-empty key segments.                                               *)

C3_InitialiseThenSetKeys ==
    /\ []((Initialised /\ KeyPath(param_name.v)) => exc = "none")
    /\ [][(/\ Initialised
           /\ KeyPath(param_name.v)
           /\ op' = "set"
           /\ param_name' = param_name)
             => (/\ exc' = "none"
                 /\ get(content', param_name'.v, PyNone) = Returned(value'))]_vars

C3_Witness ==
    /\ Called("set")
    /\ calls = 2
    /\ exc = "none"
    /\ value = http_x
    /\ KeyPath(param_name.v)
    /\ Len(split(param_name.v)) = 3
    /\ pre = initialise_recursive(EmptyRoot, param_name.v).node
    /\ get(content, param_name.v, PyNone) = Returned(http_x)

----------------------------------------------------------------------------
(* C4: after a delete(p) that returned true, a second delete(p) returns      *)
(* false and leaves the tree as the first call left it, with a Map parent    *)
(* and with a Sequence parent.                                               *)

Deleted == Called("delete") /\ exc = "none" /\ ret = PyBool(TRUE)

C4_DeleteTwice ==
    [][(Deleted /\ op' = "delete" /\ param_name' = param_name)
          => (exc' = "none" /\ ret' = PyBool(FALSE) /\ content' = content)]_vars

(* C4 as the code has it: with a Map parent the second delete(p) returns     *)
(* false and leaves the tree alone.  With a Sequence parent the elements     *)
(* moved down, and the second delete(p) returns false, leaving the tree      *)
(* alone, only when the index addresses no element of the shortened          *)
(* Sequence; else it returns true and removes one more element.              *)

C4_DeleteTwiceByParent ==
    [][(Deleted /\ op' = "delete" /\ param_name' = param_name)
          => LET parent == get_parent(content, param_name.v).ret
                 key == _get_focused_key(param_name.v)
             IN  /\ exc' = "none"
                 /\ parent.t \in {"dict", "list"}
                 /\ parent.t = "dict"
                       => (ret' = PyBool(FALSE) /\ content' = content)
                 /\ parent.t = "list"
                       => /\ ret' = PyBool(~ _is_out_of_range(int(key), parent))
                          /\ ret' = PyBool(FALSE) => content' = content
                          /\ ret' = PyBool(TRUE)
                                => Len(get_parent(content', param_name.v).ret.e)
                                      = Len(parent.e) - 1]_vars

C4_Witness ==
    /\ Called("delete")
    /\ calls = 2
    /\ exc = "none"
    /\ ret = PyBool(FALSE)
    /\ content = pre
    /\ get_parent(pre, param_name.v).ret.t = "dict"
    /\ \E c \in Contents : delete(c, param_name.v) = Done(PyBool(TRUE), pre)

----------------------------------------------------------------------------
(* C5: for a path p that resolves to no node of the tree and any default d,  *)
(* get(p, d) returns d.                                                      *)

C5_AbsentGivesDefault ==
    (Called("get") /\ ~ Resolves(pre, param_name.v))
        => (exc = "none" /\ ret = value)

----------------------------------------------------------------------------
(* C6: get, key_exists, get_parent and get_keys_in never raise, whatever the *)
(* tree and the path.                                                        *)

C6_ReadsNeverRaise == op \in Reads => exc = "none"

----------------------------------------------------------------------------
(* C7: an initialise_recursive(p) that fails leaves the whole tree as it was *)
(* before the call.                                                          *)

C7_FailedInitialiseLeavesTree ==
    (Called("initialise_recursive") /\ exc # "none") => content = pre

----------------------------------------------------------------------------
(* C8: a set(p, v) that fails, with whatever error, leaves the whole tree as *)
(* it was before the call.                                                   *)

C8_FailedSetLeavesTree == (op = "set" /\ exc # "none") => content = pre

C8_Witness ==
    /\ Called("set")
    /\ exc = "ValueError"
    /\ Len(split(param_name.v)) = 3
    /\ NodeAt(pre, PathOfParent(param_name.v)).found
    /\ content = pre

----------------------------------------------------------------------------
(* C9: for a Sequence of length n at path a and an index i >= n, after       *)
(* set(a.i, v) the Sequence has length i + 1, positions 0..n-1 are as they   *)
(* were, positions n..i-1 hold None and position i holds v; for an empty     *)
(* Sequence and i = 3, get_keys_in(a) is [0, 1, 2, 3], get of a.0, a.1 and   *)
(* a.2 is None and get of a.3 is v.                                          *)

\* set(a.i, v) returned, for a Sequence at a and an index i at or past its end
Extended ==
    /\ Called("set")
    /\ exc = "none"
    /\ IsIndexSegment(LastPiece(param_name.v))
    /\ SequenceAt(pre, param_name.v)
    /\ int(LastPiece(param_name.v)) >= Len(ElementsAt(pre, param_name.v))

C9_AutoExtension ==
    Extended =>
        LET a == join(PathOfParent(param_name.v))
            i == int(LastPiece(param_name.v))
            before == ElementsAt(pre, param_name.v)
            after == ElementsAt(content, param_name.v)
            n == Len(before)
            at(k) == a \o <<PATH_SEPARATOR_CHAR>> \o <<Digits[k + 1]>>
        IN  /\ SequenceAt(content, param_name.v)
            /\ Len(after) = i + 1
            /\ \A k \in 1..n : after[k] = before[k]
            /\ \A k \in (n + 1)..i : after[k] = PyNone
            /\ after[i + 1] = value
            /\ (n = 0 /\ i = 3)
                  => /\ get_keys_in(content, PyStr(a))
                           = Returned(PyList(<<PyInt(0), PyInt(1),
                                               PyInt(2), PyInt(3)>>))
                     /\ \A k \in 0..2 :
                           get(content, at(k), PyNone) = Returned(PyNone)
                     /\ get(content, at(3), PyNone) = Returned(value)

C9_Witness ==
    /\ Extended
    /\ value = http_x
    /\ ElementsAt(pre, param_name.v) = <<>>
    /\ int(LastPiece(param_name.v)) = 3
    /\ ElementsAt(content, param_name.v) = <<PyNone, PyNone, PyNone, http_x>>

----------------------------------------------------------------------------
(* C10: when the walk of set(p, v) reaches an index segment, intermediate or *)
(* last, while the node it stands on is not a Sequence (a Map, a scalar or   *)
(* None), set raises ValueError and writes nothing.                          *)

C10_TypeMismatch ==
    (Called("set") /\ IndexMeetsNonSequence(pre, split(param_name.v)))
        => (exc = "ValueError" /\ content = pre)

C10_Witness ==
    /\ Called("set")
    /\ Len(split(param_name.v)) = 3
    /\ IsKeySegment(split(param_name.v)[1])
    /\ IsIndexSegment(split(param_name.v)[2])
    /\ NodeAt(pre, <<split(param_name.v)[1]>>).found
    /\ NodeAt(pre, <<split(param_name.v)[1]>>).node.t \in {"str", "None"}
    /\ exc = "ValueError"
    /\ content = pre

----------------------------------------------------------------------------
(* C11: when a proper prefix of p addresses a scalar of the tree,            *)
(* initialise_recursive(p) raises RuntimeError, get of that prefix still     *)
(* returns the scalar, and the tree is as it was: nothing is overwritten.    *)

IsScalar(node) == node.t \in {"str", "int", "bool"}

Prefix(name, k) == SubSeq(split(name), 1, k)

\* the proper prefixes of the path that address a scalar of the tree
ScalarPrefixes(root, name) ==
    {k \in 1..(Len(split(name)) - 1) :
        /\ NodeAt(root, Prefix(name, k)).found
        /\ IsScalar(NodeAt(root, Prefix(name, k)).node)}

C11_StructureConflict ==
    (Called("initialise_recursive") /\ ScalarPrefixes(pre, param_name.v) # {})
        => /\ exc = "RuntimeError"
           /\ content = pre
           /\ \A k \in ScalarPrefixes(pre, param_name.v) :
                 get(content, join(Prefix(param_name.v, k)), PyNone)
                    = Returned(NodeAt(pre, Prefix(param_name.v, k)).node)

C11_Witness ==
    /\ Called("initialise_recursive")
    /\ Len(split(param_name.v)) = 3
    /\ ScalarPrefixes(pre, param_name.v) = {2}
    /\ exc = "RuntimeError"
    /\ get(content, join(Prefix(param_name.v, 2)), PyNone).ret.t = "int"

----------------------------------------------------------------------------
(* C12: set with the empty string or with None for the path raises           *)
(* RuntimeError, the same error in both cases, and leaves the tree as it     *)
(* was.                                                                      *)

C12_InvalidPath ==
    (op = "set" /\ param_name \in {PyNone, PyStr(<<>>)})
        => (exc = "RuntimeError" /\ content = pre)

----------------------------------------------------------------------------
(* C13: when set(p, v) ends in a key segment k and the parent path of p      *)
(* addresses a scalar, the call returns and the scalar has been replaced by  *)
(* the single-entry Map {k: v}.                                              *)

\* the parent path of the name addresses a scalar, and its last piece is a key
KeyUnderScalar(root, name) ==
    /\ Len(split(name)) > 1
    /\ IsKeySegment(LastPiece(name))
    /\ NodeAt(root, PathOfParent(name)).found
    /\ IsScalar(NodeAt(root, PathOfParent(name)).node)

C13_ScalarParentReplaced ==
    (Called("set") /\ KeyUnderScalar(pre, param_name.v))
        => /\ exc = "none"
           /\ NodeAt(content, PathOfParent(param_name.v)).found
           /\ NodeAt(content, PathOfParent(param_name.v)).node
                 = PyDict(<<Entry(LastPiece(param_name.v), value)>>)

----------------------------------------------------------------------------
(* C14: key_exists(p) returns false when the parent path of p resolves to no *)
(* node; with a Sequence parent and an index last segment (signed ones       *)
(* included) it returns true exactly when the index is within the bounds of  *)
(* the Sequence; with a Map parent it returns true exactly when the last     *)
(* segment is a key of the Map; with any other parent it returns false.      *)

\* what the rule above gives for the path
Exists(root, name) ==
    LET parent == NodeAt(root, PathOfParent(name))
        last == LastPiece(name)
    IN  IF ~ parent.found THEN FALSE
        ELSE IF parent.node.t = "list"
        THEN /\ IsIndexSegment(last)
             /\ ~ _is_out_of_range(int(last), parent.node)
        ELSE IF parent.node.t = "dict" THEN HasKey(parent.node, last)
        ELSE FALSE

C14_KeyExists ==
    Called("key_exists")
        => (exc = "none" /\ ret = PyBool(Exists(pre, param_name.v)))

----------------------------------------------------------------------------
(* C15: when key_exists(p) is false, delete(p) returns false and leaves the  *)
(* whole tree as it was.                                                     *)

C15_DeleteAbsent ==
    (Called("delete") /\ key_exists(pre, param_name.v) = Returned(PyBool(FALSE)))
        => (exc = "none" /\ ret = PyBool(FALSE) /\ content = pre)

C15_Witness ==
    /\ Called("delete")
    /\ key_exists(pre, param_name.v) = Returned(PyBool(FALSE))
    /\ Len(split(param_name.v)) = 3
    /\ NodeAt(pre, PathOfParent(param_name.v)).found
    /\ NodeAt(pre, PathOfParent(param_name.v)).node.t = "list"
    /\ NodeAt(pre, PathOfParent(param_name.v)).node.e # <<>>
    /\ ret = PyBool(FALSE)
    /\ content = pre

----------------------------------------------------------------------------
(* C16: when key_exists(p) is true, delete(p) returns true and removes the   *)
(* addressed entry and nothing else: from a Map parent that key goes and the *)
(* other keys keep their values and their order; from a Sequence parent the  *)
(* element goes, the length drops by one and the elements after it move down *)
(* by one; the tree outside the parent is as it was.                         *)

\* the node with the node that the pieces lead to replaced
RECURSIVE Put(_, _, _)
Put(node, pieces, new) ==
    IF pieces = <<>> THEN new
    ELSE IF node.t = "list"
    THEN ListSet(node, int(Head(pieces)),
                 Put(ListGet(node, int(Head(pieces))), Tail(pieces), new))
    ELSE DictSet(node, Head(pieces),
                 Put(Lookup(node, Head(pieces)), Tail(pieces), new))

\* the entries of a Map without the key
WithoutKey(entries, key) ==
    LET Other(entry) == entry.k # key
    IN  SelectSeq(entries, Other)

\* the elements of a Sequence without the one at the 1-based position
WithoutPosition(elements, position) ==
    [i \in 1..(Len(elements) - 1) |->
        IF i < position THEN elements[i] ELSE elements[i + 1]]

C16_DeleteRemovesEntry ==
    (Called("delete") /\ key_exists(pre, param_name.v) = Returned(PyBool(TRUE)))
        => LET before == get_parent(pre, param_name.v).ret
               after == get_parent(content, param_name.v).ret
               key == _get_focused_key(param_name.v)
           IN  /\ exc = "none"
               /\ ret = PyBool(TRUE)
               /\ after.t = before.t
               /\ before.t = "dict"
                     => after.e = WithoutKey(before.e, key)
               /\ before.t = "list"
                     => /\ Len(after.e) = Len(before.e) - 1
                        /\ after.e = WithoutPosition(before.e,
                                                     Pos(int(key), before))
               /\ Put(content, ParentPieces(param_name.v), before) = pre

C16_Witness ==
    /\ Called("delete")
    /\ key_exists(pre, param_name.v) = Returned(PyBool(TRUE))
    /\ ret = PyBool(TRUE)
    /\ Len(split(param_name.v)) = 2
    /\ get_parent(pre, param_name.v).ret.t = "list"
    /\ Len(get_parent(pre, param_name.v).ret.e) = 2
    /\ int(_get_focused_key(param_name.v)) = 0
    /\ get_parent(content, param_name.v).ret.e
          = <<get_parent(pre, param_name.v).ret.e[2]>>

----------------------------------------------------------------------------
(* C17: set creates no intermediate node.  When the walk of set(p, v) comes  *)
(* to a segment that is not the last and that is a key the Map it stands on  *)
(* does not have, or an index that is out of the range of the Sequence it    *)
(* stands on or that holds None there, set raises RuntimeError and the tree  *)
(* is as it was: no key and no element was added.                            *)

\* the walk over the pieces comes to such a segment
RECURSIVE MissingIntermediate(_, _)
MissingIntermediate(node, pieces) ==
    IF Len(pieces) < 2 THEN FALSE
    ELSE LET piece == Head(pieces)
         IN  IF IsIndexSegment(piece)
             THEN /\ node.t = "list"
                  /\ IF _is_out_of_range(int(piece), node) THEN TRUE
                     ELSE IF ListGet(node, int(piece)) = PyNone THEN TRUE
                     ELSE MissingIntermediate(ListGet(node, int(piece)),
                                              Tail(pieces))
             ELSE /\ IsKeySegment(piece)
                  /\ node.t = "dict"
                  /\ IF ~ HasKey(node, piece) THEN TRUE
                     ELSE MissingIntermediate(Lookup(node, piece), Tail(pieces))

C17_NoIntermediateCreated ==
    (Called("set") /\ MissingIntermediate(pre, split(param_name.v)))
        => (exc = "RuntimeError" /\ content = pre)

----------------------------------------------------------------------------
(* C18: when the walk of get(p, d) meets a key of a Map that holds None, in  *)
(* a path of one segment or of several, get returns d.                       *)

\* the prefixes of the path that address a None held by a key of a Map
NonePrefixes(root, name) ==
    {k \in 1..Len(split(name)) :
        /\ NodeAt(root, Prefix(name, k)).found
        /\ NodeAt(root, Prefix(name, k)).node = PyNone
        /\ NodeAt(root, Prefix(name, k - 1)).node.t = "dict"}

C18_NoneGivesDefault ==
    (Called("get") /\ NonePrefixes(pre, param_name.v) # {})
        => (exc = "none" /\ ret = value)

----------------------------------------------------------------------------
(* C19: when the walk of get(p, d) stands on a Map and the segment is an     *)
(* index segment (also when the Map has that string of digits for a key, and *)
(* also for a single segment at the root), or stands on a Sequence and the   *)
(* segment is a key segment, get returns d.                                  *)

\* the positions of the path where the segment's class and the node disagree
Misclassified(root, name) ==
    {k \in 1..Len(split(name)) :
        /\ NodeAt(root, Prefix(name, k - 1)).found
        /\ \/ /\ IsIndexSegment(split(name)[k])
              /\ NodeAt(root, Prefix(name, k - 1)).node.t = "dict"
           \/ /\ IsKeySegment(split(name)[k])
              /\ NodeAt(root, Prefix(name, k - 1)).node.t = "list"}

C19_LexicalClassification ==
    (Called("get") /\ Misclassified(pre, param_name.v) # {})
        => (exc = "none" /\ ret = value)

----------------------------------------------------------------------------
(* C20: two instances, each constructed without a content, have roots of     *)
(* their own: a call of set, delete or initialise_recursive on one of them   *)
(* leaves what get_all and get return on the other as it was, so that the    *)
(* other, never written to, still shows the empty Map it was constructed     *)
(* with.                                                                     *)

Writes == {"set", "delete", "initialise_recursive"}

C20_InstanceIsolation ==
    [][op' \in Writes
          => \A j \in DOMAIN _content \ {self'} :
                /\ get_all(heap'[_content'[j]]) = get_all(heap[_content[j]])
                /\ param_name' # PyNone
                      => get(heap'[_content'[j]], param_name'.v, default)
                            = get(heap[_content[j]], param_name'.v, default)]_vars

----------------------------------------------------------------------------
(* C21: a set(p, v) that returned changed only what p addresses: for every   *)
(* path q that is not p, not a prefix of p and not an extension of p, and    *)
(* for every default d, get(q, d) gives after the call what it gave before   *)
(* it (a position that auto-extension filled with None still reads as d).    *)

\* the paths that are neither the name, nor above it, nor below it
Unrelated[name \in Names] == {q \in Names : ~ Related(name, q)}

\* get gives the same on the two trees, whatever the default
SameGet(before, after, q) ==
    \A d \in Defaults : get(after, q.v, d) = get(before, q.v, d)

C21_FrameOfSet ==
    (Called("set") /\ exc = "none")
        => \A q \in Unrelated[param_name] : SameGet(pre, content, q)

----------------------------------------------------------------------------
(* C22: after an initialise_recursive(p) that returned, key_exists(q) is     *)
(* true for every prefix q of p, every node the tree had before the call is  *)
(* as it was, every node the call created is an empty Map (holding at most   *)
(* the Maps created below it; the positions that auto-extension of a         *)
(* Sequence filled hold None, no node), and a second initialise_recursive(p) *)
(* returns and leaves the tree as it is.                                     *)

\* the new node has all that the old one had: a scalar or None is the same, a
\* Map has the same keys in the same order before any new one, a Sequence the
\* same elements before any new one, each keeping all it had
RECURSIVE Keeps(_, _)
Keeps(old, new) ==
    IF old.t = "dict"
    THEN /\ new.t = "dict"
         /\ Len(new.e) >= Len(old.e)
         /\ \A i \in 1..Len(old.e) :
               new.e[i].k = old.e[i].k /\ Keeps(old.e[i].v, new.e[i].v)
    ELSE IF old.t = "list"
    THEN /\ new.t = "list"
         /\ Len(new.e) >= Len(old.e)
         /\ \A i \in 1..Len(old.e) : Keeps(old.e[i], new.e[i])
    ELSE new = old

\* a Map that holds nothing but such Maps
RECURSIVE OnlyMaps(_)
OnlyMaps(node) ==
    /\ node.t = "dict"
    /\ \A i \in 1..Len(node.e) : OnlyMaps(node.e[i].v)

\* what the call added to the old node is Maps of that kind, and None in the
\* positions of a Sequence
RECURSIVE AddedOnlyMaps(_, _)
AddedOnlyMaps(old, new) ==
    IF old.t = "dict"
    THEN /\ \A i \in 1..Len(old.e) : AddedOnlyMaps(old.e[i].v, new.e[i].v)
         /\ \A i \in (Len(old.e) + 1)..Len(new.e) : OnlyMaps(new.e[i].v)
    ELSE IF old.t = "list"
    THEN /\ \A i \in 1..Len(old.e) : AddedOnlyMaps(old.e[i], new.e[i])
         /\ \A i \in (Len(old.e) + 1)..Len(new.e) :
               new.e[i] = PyNone \/ OnlyMaps(new.e[i])
    ELSE TRUE

=============================================================================
